---------------------------- MODULE Spec2Model ----------------------------
(***************************************************************************)
(* A model of wsbps-js: the binary DataType codecs (src/src/data.ts), the  *)
(* struct and packet definitions (src/unnamed/part_000, imported as        *)
(* "./packets") and the BinarySocket wrapper (src/src/socket.ts).          *)
(*                                                                         *)
(* Representation of JavaScript values:                                    *)
(*  - an integer-valued number x is the record [k, m] with                 *)
(*    x = k * 2^32 + m and -2^31 <= m < 2^31, so that m is ToInt32(x);     *)
(*  - a floating point number is its IEEE-754 binary64 pattern, a tuple of *)
(*    eight bytes, most significant first;                                 *)
(*  - a string is the sequence of its UTF-16 code units;                   *)
(*  - a Uint8Array is the sequence of its bytes;                           *)
(*  - a struct value is a record; a map value (a plain object iterated     *)
(*    with Object.keys) is the sequence of its <<key string, value>>       *)
(*    pairs in property order.                                             *)
(* A buffer is the sequence of its bytes; offset o is index o + 1.         *)
(***************************************************************************)
EXTENDS Integers, Sequences, FiniteSets, TLC

VARIABLES
    \* one use of a DataType: size, encode, then decode
    pc, dtype, value, start, blank, view, tracker, err, out,
    \* BinarySocket, write side
    writeTracker, created,
    \* BinarySocket, read side
    definitions, packetListeners, readTracker, handled,
    \* history of the definePacket(s) / addListener / removeListener calls: per
    \* id, the definition registered last and the listeners registered now
    history,
    \* BinarySocket, connection and events; registered is the history of the
    \* addEventListener / removeEventListener calls: the listeners each event
    \* has as the README tells it, and the last call with the state before it
    config, sockets, ws, timers, eventListeners, fired, registered

codecVars == <<pc, dtype, value, start, blank, view, tracker, err, out>>
sendVars == <<writeTracker, created>>
recvVars == <<definitions, packetListeners, readTracker, handled, history>>
connVars == <<config, sockets, ws, timers, eventListeners, fired, registered>>
vars == <<codecVars, sendVars, recvVars, connVars>>

---------------------------------------------------------------------------
(* Bounds of the model *)

\* the DataType under test starts at cursor offsets 0..MaxStart
MaxStart == 1
\* the buffer under test holds 0..MaxSlack bytes more than size(v)
MaxSlack == 4
\* arrays and maps under test hold 0..MaxCount entries
MaxCount == 3
\* the length of the long string under test
LongLen == 1000
\* create is called at most MaxCalls times on one BinarySocket
MaxCalls == 3
\* messages are delivered while the read cursor is at most MaxTracker
MaxTracker == 4
\* at most MaxListeners listeners are registered at a time
MaxListeners == 2
\* at most MaxSockets connections are made by one BinarySocket
MaxSockets == 2
\* at most MaxEventListeners event listeners are registered at a time
MaxEventListeners == 2
\* VarInt.decode is given runs of 0..MaxRun bytes with the continuation bit
MaxRun == 11

---------------------------------------------------------------------------
(* JavaScript numbers and the conversions the code relies on *)

N(n) == [k |-> 0, m |-> n]

MinInt32 == -2147483647 - 1

\* x >= c for a number x and a small non-negative integer c
NumGe(x, c) == x.k > 0 \/ (x.k = 0 /\ x.m >= c)

ToInt32(x) == x.m
ToUint8(x) == x.m % 256

\* the int32 whose unsigned 16-bit halves are hi and lo
FromHalves(hi, lo) == IF hi >= 32768 THEN (hi - 65536) * 65536 + lo ELSE hi * 65536 + lo

RECURSIVE Or16(_, _, _)
Or16(a, b, n) ==
    IF n = 0 THEN 0
    ELSE (IF a % 2 = 1 \/ b % 2 = 1 THEN 1 ELSE 0) + 2 * Or16(a \div 2, b \div 2, n - 1)

\* a | b on int32 operands
Or32(a, b) ==
    FromHalves(Or16((a \div 65536) % 65536, (b \div 65536) % 65536, 16),
               Or16(a % 65536, b % 65536, 16))

RECURSIVE And16(_, _, _)
And16(a, b, n) ==
    IF n = 0 THEN 0
    ELSE (IF a % 2 = 1 /\ b % 2 = 1 THEN 1 ELSE 0) + 2 * And16(a \div 2, b \div 2, n - 1)

\* a & b on int32 operands
And32(a, b) ==
    FromHalves(And16((a \div 65536) % 65536, (b \div 65536) % 65536, 16),
               And16(a % 65536, b % 65536, 16))

\* a >> n on an int32 operand (sign-propagating)
Shr32(a, n) == a \div (2 ^ (n % 32))

\* b << n for a byte b: the shift count is taken modulo 32 and the result
\* wraps to int32
Shl32(b, n) ==
    LET s == n % 32
        w == 32 - s
        low == b % (2 ^ w)
    IN IF s <= 23 THEN b * (2 ^ s)
       ELSE IF s = 31 THEN (IF low = 1 THEN MinInt32 ELSE 0)
       ELSE IF low >= 2 ^ (w - 1) THEN (low - 2 ^ w) * (2 ^ s) ELSE low * (2 ^ s)

---------------------------------------------------------------------------
(* DataView and DataViewTracker.  A pass over a buffer is the record       *)
(* [d, t, err]: the bytes, the tracker's offset, and whether a RangeError  *)
(* has been thrown (every later step of the pass is then skipped).         *)

Pass(d, t) == [d |-> d, t |-> t, err |-> FALSE]

\* F applied to the value of x, with x computed once: the steps of a pass
\* run one after the other, each on the result of the one before
Then(x, F(_)) == CHOOSE y \in {F(v) : v \in {x}} : TRUE

\* d.setXxx(t.many(adv), v) writing `bytes`: the tracker moves first, the
\* DataView then checks the whole write against the buffer before writing
SetBytesAt(s, adv, bytes) ==
    IF s.err THEN s
    ELSE IF s.t < 0 \/ s.t + Len(bytes) > Len(s.d)
         THEN [d |-> s.d, t |-> s.t + adv, err |-> TRUE]
         ELSE [d |-> [i \in 1..Len(s.d) |->
                        IF i > s.t /\ i <= s.t + Len(bytes) THEN bytes[i - s.t] ELSE s.d[i]],
               t |-> s.t + adv, err |-> FALSE]

SetBytes(s, adv, bytes) ==
    Then(s, LAMBDA s1 : Then(bytes, LAMBDA b : SetBytesAt(s1, adv, b)))

\* the result of a decode: the value v, the tracker's offset t afterwards,
\* and whether a RangeError was thrown (v is then meaningless)
Got(v, t) == [v |-> v, t |-> t, err |-> FALSE]
Threw(t) == [v |-> N(0), t |-> t, err |-> TRUE]

\* whether d.getXxx(o) of n bytes is inside the buffer
InView(d, o, n) == o >= 0 /\ o + n <= Len(d)

BE16(d, o) == d[o + 1] * 256 + d[o + 2]

Bytes16(x) == << (x.m \div 256) % 256, x.m % 256 >>
Bytes32(x) == << (x.m \div 16777216) % 256, (x.m \div 65536) % 256,
                 (x.m \div 256) % 256, x.m % 256 >>

---------------------------------------------------------------------------
(* Fixed-width DataTypes, src/src/data.ts lines 79-140 *)

Int8Encode(s, v) == SetBytes(s, 1, <<ToUint8(v)>>)
Int8Decode(d, t) ==
    IF InView(d, t, 1)
    THEN Got(N(IF d[t + 1] >= 128 THEN d[t + 1] - 256 ELSE d[t + 1]), t + 1)
    ELSE Threw(t + 1)

Int16Encode(s, v) == SetBytes(s, 2, Bytes16(v))
Int16Decode(d, t) ==
    IF InView(d, t, 2)
    THEN Got(N(IF BE16(d, t) >= 32768 THEN BE16(d, t) - 65536 ELSE BE16(d, t)), t + 2)
    ELSE Threw(t + 2)

Int32Encode(s, v) == SetBytes(s, 4, Bytes32(v))
Int32Decode(d, t) ==
    IF InView(d, t, 4)
    THEN Got(N(FromHalves(BE16(d, t), BE16(d, t + 2))), t + 4)
    ELSE Threw(t + 4)

UInt8Encode(s, v) == SetBytes(s, 1, <<ToUint8(v)>>)
UInt8Decode(d, t) ==
    IF InView(d, t, 1) THEN Got(N(d[t + 1]), t + 1) ELSE Threw(t + 1)

UInt16Encode(s, v) == SetBytes(s, 2, Bytes16(v))
UInt16Decode(d, t) ==
    IF InView(d, t, 2) THEN Got(N(BE16(d, t)), t + 2) ELSE Threw(t + 2)

UInt32Encode(s, v) == SetBytes(s, 4, Bytes32(v))
UInt32Decode(d, t) ==
    IF InView(d, t, 4)
    THEN Got([k |-> IF d[t + 1] >= 128 THEN 1 ELSE 0,
              m |-> FromHalves(BE16(d, t), BE16(d, t + 2))], t + 4)
    ELSE Threw(t + 4)

\* the binary64 pattern of the number a binary32 pattern denotes
\* (getFloat32 returns a JavaScript number, which is a binary64)
RECURSIVE Log2(_)
Log2(n) == IF n <= 1 THEN 0 ELSE 1 + Log2(n \div 2)

PackF64(sign, e11, f23) ==
    << sign * 128 + e11 \div 16, (e11 % 16) * 16 + f23 \div 524288,
       (f23 \div 2048) % 256, (f23 \div 8) % 256, (f23 % 8) * 32, 0, 0, 0 >>

F32ToF64(b) ==
    LET sign == b[1] \div 128
        e8 == (b[1] % 128) * 2 + b[2] \div 128
        m23 == (b[2] % 128) * 65536 + b[3] * 256 + b[4]
        p == Log2(m23)
    IN IF e8 = 0 /\ m23 = 0 THEN PackF64(sign, 0, 0)
       ELSE IF e8 = 255 THEN PackF64(sign, 2047, m23)
       ELSE IF e8 = 0 THEN PackF64(sign, 874 + p, (m23 - 2 ^ p) * (2 ^ (23 - p)))
       ELSE PackF64(sign, e8 + 896, m23)

\* line 124: setFloat64 at t.many(4)
Float32Encode(s, v) == SetBytes(s, 4, v)
Float32Decode(d, t) ==
    IF InView(d, t, 4) THEN Got(F32ToF64(SubSeq(d, t + 1, t + 4)), t + 4) ELSE Threw(t + 4)

Float64Encode(s, v) == SetBytes(s, 8, v)
Float64Decode(d, t) ==
    IF InView(d, t, 8) THEN Got(SubSeq(d, t + 1, t + 8), t + 8) ELSE Threw(t + 8)

BoolEncode(s, v) == UInt8Encode(s, IF v THEN N(1) ELSE N(0))
BoolDecode(d, t) ==
    Then(UInt8Decode(d, t), LAMBDA r : IF r.err THEN r ELSE Got(r.v = N(1), r.t))

---------------------------------------------------------------------------
(* VarInt, src/src/data.ts lines 142-174 *)

\* the loop of VarInt.size once value is an int32 (after the first >>=)
RECURSIVE VarIntSizeLoop(_, _)
VarIntSizeLoop(v, size) ==
    IF v >= 128 THEN VarIntSizeLoop(Shr32(v, 7), size + 1) ELSE size + 1

VarIntSize(x) ==
    IF NumGe(x, 128) THEN VarIntSizeLoop(Shr32(ToInt32(x), 7), 1) ELSE 1

\* the loop of VarInt.encode once v is an int32 (after the first >>=)
RECURSIVE VarIntEncodeLoop(_, _)
VarIntEncodeLoop(s, v) ==
    IF v >= 128
    THEN VarIntEncodeLoop(UInt8Encode(s, N(Or32(v, 128))), Shr32(v, 7))
    ELSE UInt8Encode(s, N(v))

\* VarInt.encode with the continuation test `value > 0x80` on the first byte
VarIntEncodeGt(s, x) ==
    IF NumGe(x, 129)
    THEN VarIntEncodeLoop(UInt8Encode(s, N(Or32(ToInt32(x), 128))), Shr32(ToInt32(x), 7))
    ELSE UInt8Encode(s, x)

VarIntEncode(s, x) ==
    IF NumGe(x, 128)
    THEN VarIntEncodeLoop(UInt8Encode(s, N(Or32(ToInt32(x), 128))), Shr32(ToInt32(x), 7))
    ELSE UInt8Encode(s, x)

VarIntMaxBytes == 10

RECURSIVE VarIntDecodeLoopLe(_, _, _, _, _)
\* VarInt.decode with the loop test `i <= 10`
VarIntDecodeLoopLe(d, t, i, val, bitOffset) ==
    IF i > VarIntMaxBytes THEN Got(N(val), t)
    ELSE Then(UInt8Decode(d, t), LAMBDA r :
           IF r.err THEN r
           ELSE IF r.v.m < 128
                THEN IF i = 9 /\ r.v.m > 1
                     THEN Got(N(val), r.t)
                     ELSE Got(N(Or32(val, Shl32(r.v.m, bitOffset))), r.t)
                ELSE Then(Or32(val, Shl32(And32(r.v.m, 127), bitOffset)), LAMBDA value1 :
                       VarIntDecodeLoopLe(d, r.t, i + 1, value1, bitOffset + 7)))

RECURSIVE VarIntDecodeLoop(_, _, _, _, _)
VarIntDecodeLoop(d, t, i, val, bitOffset) ==
    IF i >= VarIntMaxBytes THEN Got(N(val), t)
    ELSE Then(UInt8Decode(d, t), LAMBDA r :
           IF r.err THEN r
           ELSE IF r.v.m < 128
                THEN IF i = 9 /\ r.v.m > 1
                     THEN Got(N(val), r.t)
                     ELSE Got(N(Or32(val, Shl32(r.v.m, bitOffset))), r.t)
                ELSE Then(Or32(val, Shl32(And32(r.v.m, 127), bitOffset)), LAMBDA value1 :
                       VarIntDecodeLoop(d, r.t, i + 1, value1, bitOffset + 7)))

VarIntDecode(d, t) == VarIntDecodeLoop(d, t, 0, 0, 0)

---------------------------------------------------------------------------
(* Property keys of plain objects.  Object.keys lists the canonical array  *)
(* indices in ascending numeric order, then the other keys in insertion    *)
(* order; a number used as a property key is converted with ToString, and  *)
(* a key string handed to a DataView setter or compared with a number is   *)
(* converted with ToNumber.  Both are modelled for the integers whose      *)
(* magnitude is below 10^9 (k = 0).                                        *)

Digit(c) == c >= 48 /\ c <= 57

RECURSIVE DigitsOf(_)
DigitsOf(n) == IF n < 10 THEN <<48 + n>> ELSE Append(DigitsOf(n \div 10), 48 + (n % 10))

\* ToString of an integer-valued number
NumToStr(x) == IF x.m < 0 THEN <<45>> \o DigitsOf(-x.m) ELSE DigitsOf(x.m)

RECURSIVE DigitsValue(_, _)
DigitsValue(str, acc) ==
    IF str = <<>> THEN acc ELSE DigitsValue(Tail(str), acc * 10 + (Head(str) - 48))

AllDigits(str) == str # <<>> /\ Len(str) <= 9 /\ \A i \in 1..Len(str) : Digit(str[i])

\* ToNumber of a string; a string that is not a decimal integer gives NaN,
\* which every use here (setUint8, >=, >>) treats as 0
ToNumber(str) ==
    IF AllDigits(str) THEN N(DigitsValue(str, 0))
    ELSE IF str # <<>> /\ Head(str) = 45 /\ AllDigits(Tail(str))
         THEN N(-DigitsValue(Tail(str), 0))
         ELSE N(0)

IsArrayIndex(str) == AllDigits(str) /\ NumToStr(ToNumber(str)) = str

HasKey(obj, key) == \E i \in 1..Len(obj) : obj[i][1] = key

\* where a new property `key` goes in the property order of obj
InsertAt(obj, key) ==
    IF IsArrayIndex(key)
    THEN Cardinality({i \in 1..Len(obj) :
                        IsArrayIndex(obj[i][1]) /\ ToNumber(obj[i][1]).m < ToNumber(key).m}) + 1
    ELSE Len(obj) + 1

\* obj[key] = val
ObjSet(obj, key, val) ==
    IF HasKey(obj, key)
    THEN [i \in 1..Len(obj) |-> IF obj[i][1] = key THEN <<key, val>> ELSE obj[i]]
    ELSE LET p == InsertAt(obj, key)
         IN SubSeq(obj, 1, p - 1) \o << <<key, val>> >> \o SubSeq(obj, p, Len(obj))

ObjectKeys(obj) == [i \in 1..Len(obj) |-> obj[i][1]]
ObjectValues(obj) == [i \in 1..Len(obj) |-> obj[i][2]]

\* obj[key] for a key the object has
ObjGet(obj, key) == obj[CHOOSE i \in 1..Len(obj) : obj[i][1] = key][2]

---------------------------------------------------------------------------
(* DataType descriptors.  A struct layout is a plain object from field     *)
(* names to DataTypes, in property order.                                  *)

Int8 == [kind |-> "Int8"]
Int16 == [kind |-> "Int16"]
Int32 == [kind |-> "Int32"]
UInt8 == [kind |-> "UInt8"]
UInt16 == [kind |-> "UInt16"]
UInt32 == [kind |-> "UInt32"]
Float32 == [kind |-> "Float32"]
Float64 == [kind |-> "Float64"]
Bool == [kind |-> "Bool"]
VarInt == [kind |-> "VarInt"]
ByteArray == [kind |-> "ByteArray"]
Str == [kind |-> "Str"]

\* a definition that takes its fields in the layout's property order
StructDefinitionLayoutOrder(struct, keys) == [fields |-> struct]

\* new StructDefinition(struct, keys): fields[i] = [keys[i], struct[keys[i]]]
StructDefinition(struct, keys) ==
    [fields |-> [i \in 1..Len(keys) |-> <<keys[i], ObjGet(struct, keys[i])>>]]

\* new PacketDefinition(id, struct, keys)
PacketDefinition(id, struct, keys) ==
    [id |-> id, fields |-> StructDefinition(struct, keys).fields]

MapType(keyType, valueType) == [kind |-> "MapType", keyType |-> keyType, valueType |-> valueType]
Struct(struct, keys) == [kind |-> "Struct", definition |-> StructDefinition(struct, keys)]
StructArray(struct, keys) == [kind |-> "StructArray", definition |-> StructDefinition(struct, keys)]
ArrayType(type) == [kind |-> "ArrayType", type |-> type]

\* typeof type.size === 'number', and that number
HasFixedSize(type) ==
    type.kind \in {"Int8", "Int16", "Int32", "UInt8", "UInt16", "UInt32",
                   "Float32", "Float64", "Bool"}

FixedSize(type) ==
    CASE type.kind \in {"Int8", "UInt8", "Bool"} -> 1
      [] type.kind \in {"Int16", "UInt16"} -> 2
      [] type.kind \in {"Int32", "UInt32", "Float32"} -> 4
      [] type.kind = "Float64" -> 8

\* a key string as the key DataType's size and encode use it: a Str takes
\* the string, a numeric DataType converts it with ToNumber
KeyArg(keyType, key) == IF keyType.kind = "Str" THEN key ELSE ToNumber(key)

\* a decoded key as a property key
PropertyKey(keyType, key) == IF keyType.kind = "Str" THEN key ELSE NumToStr(key)

---------------------------------------------------------------------------
(* ByteArray and Str, src/src/data.ts lines 201-234 *)

\* for (elm of v) UInt8.encode(d, t, elm): the bytes that fit are written,
\* and the first call past the end of the buffer moves the tracker and throws
EncodeEachAt(s, bytes) ==
    IF s.err \/ bytes = <<>> THEN s
    ELSE IF s.t < 0 THEN [d |-> s.d, t |-> s.t + 1, err |-> TRUE]
    ELSE LET room == IF Len(s.d) > s.t THEN Len(s.d) - s.t ELSE 0
             n == IF Len(bytes) <= room THEN Len(bytes) ELSE room
         IN [d |-> [i \in 1..Len(s.d) |->
                      IF i > s.t /\ i <= s.t + n THEN bytes[i - s.t] % 256 ELSE s.d[i]],
             t |-> IF n = Len(bytes) THEN s.t + n ELSE s.t + n + 1,
             err |-> n < Len(bytes)]

EncodeEach(s, bytes) == Then(s, LAMBDA s1 : EncodeEachAt(s1, bytes))

ByteArraySize(v) == VarIntSize(N(Len(v))) + Len(v)
ByteArrayEncode(s, v) == EncodeEach(VarIntEncode(s, N(Len(v))), v)
ByteArrayDecode(d, t) ==
    Then(VarIntDecode(d, t), LAMBDA r :
      IF r.err THEN r
      ELSE IF r.v.m < 0 \/ r.t < 0 \/ r.t + r.v.m > Len(d)
           THEN Threw(r.t + r.v.m)
           ELSE Got(SubSeq(d, r.t + 1, r.t + r.v.m), r.t + r.v.m))

\* a size that counts one length byte whatever the length
StrSizeOneByte(v) == 1 + Len(v)

StrSize(v) == VarIntSize(N(Len(v))) + Len(v)
StrEncode(s, v) == EncodeEach(VarIntEncode(s, N(Len(v))), v)
StrDecode(d, t) == ByteArrayDecode(d, t)

---------------------------------------------------------------------------
(* The composite DataTypes and StructDefinition: src/src/data.ts lines     *)
(* 185-196 and 269-402, src/unnamed/part_000 lines 14-53.                  *)

RECURSIVE SizeFn(_, _), SumSizes(_, _, _), FieldSizes(_, _, _)
RECURSIVE Encode(_, _, _), EncodeAll(_, _, _, _), EncodeFields(_, _, _, _)
RECURSIVE EncodeStructs(_, _, _, _), EncodeEntries(_, _, _, _, _)
RECURSIVE Decode(_, _, _), DecodeAll(_, _, _, _, _), DecodeFields(_, _, _, _, _)
RECURSIVE DecodeStructs(_, _, _, _, _), DecodeEntries(_, _, _, _, _, _)

\* size += s(value) for the values from index i on
SumSizes(values, type, i) ==
    IF i > Len(values) THEN 0 ELSE SizeFn(type, values[i]) + SumSizes(values, type, i + 1)

\* getSizeOf with `size = s(value)` in the loop: the size of the last value
getSizeOfLast(values, type) ==
    IF HasFixedSize(type) THEN FixedSize(type) * Len(values)
    ELSE IF values = <<>> THEN 0 ELSE SizeFn(type, values[Len(values)])

getSizeOf(values, type) ==
    IF HasFixedSize(type) THEN FixedSize(type) * Len(values) ELSE SumSizes(values, type, 1)

\* the loop of StructDefinition.computeSize from field i on
FieldSizes(fields, packet, i) ==
    IF i > Len(fields) THEN 0
    ELSE (IF HasFixedSize(fields[i][2]) THEN FixedSize(fields[i][2])
          ELSE SizeFn(fields[i][2], packet[fields[i][1]]))
         + FieldSizes(fields, packet, i + 1)

computeSize(definition, packet) == FieldSizes(definition.fields, packet, 1)

MapSize(type, v) ==
    VarIntSize(N(Len(ObjectKeys(v))))
    + getSizeOf([i \in 1..Len(v) |-> KeyArg(type.keyType, ObjectKeys(v)[i])], type.keyType)
    + getSizeOf(ObjectValues(v), type.valueType)

StructArraySize(type, v) ==
    VarIntSize(N(Len(v)))
    + SumSizes(v, [kind |-> "Struct", definition |-> type.definition], 1)

ArraySize(type, v) == getSizeOf(v, type.type) + VarIntSize(N(Len(v)))

\* type.size(v) of a DataType whose size is a function
SizeFn(type, v) ==
    CASE type.kind = "VarInt" -> VarIntSize(v)
      [] type.kind = "ByteArray" -> ByteArraySize(v)
      [] type.kind = "Str" -> StrSize(v)
      [] type.kind = "MapType" -> MapSize(type, v)
      [] type.kind = "Struct" -> computeSize(type.definition, v)
      [] type.kind = "StructArray" -> StructArraySize(type, v)
      [] type.kind = "ArrayType" -> ArraySize(type, v)

\* the size of v under a DataType: the fixed number, or the function's result
Size(type, v) == IF HasFixedSize(type) THEN FixedSize(type) ELSE SizeFn(type, v)

\* the loop of StructDefinition.encode from field i on
EncodeFields(fields, s, struct, i) ==
    IF i > Len(fields) THEN s
    ELSE EncodeFields(fields, Encode(fields[i][2], s, struct[fields[i][1]]), struct, i + 1)

StructEncode(definition, s, struct) == EncodeFields(definition.fields, s, struct, 1)

\* for (value of v) type.encode(d, t, value), from index i on
EncodeAll(type, s, v, i) ==
    IF i > Len(v) THEN s ELSE EncodeAll(type, Encode(type, s, v[i]), v, i + 1)

EncodeStructs(definition, s, v, i) ==
    IF i > Len(v) THEN s
    ELSE EncodeStructs(definition, StructEncode(definition, s, v[i]), v, i + 1)

\* for (key of keys) { keyType.encode(key); valueType.encode(v[key]) }
EncodeEntries(type, s, v, keys, i) ==
    IF i > Len(keys) THEN s
    ELSE EncodeEntries(type,
                       Encode(type.valueType,
                              Encode(type.keyType, s, KeyArg(type.keyType, keys[i])),
                              ObjGet(v, keys[i])),
                       v, keys, i + 1)

MapEncode(type, s, v) ==
    EncodeEntries(type, VarIntEncode(s, N(Len(ObjectKeys(v)))), v, ObjectKeys(v), 1)

StructArrayEncode(type, s, v) ==
    EncodeStructs(type.definition, VarIntEncode(s, N(Len(v))), v, 1)

ArrayEncode(type, s, v) == EncodeAll(type.type, VarIntEncode(s, N(Len(v))), v, 1)

\* type.encode(d, t, v)
Encode(type, s, v) ==
    CASE type.kind = "Int8" -> Int8Encode(s, v)
      [] type.kind = "Int16" -> Int16Encode(s, v)
      [] type.kind = "Int32" -> Int32Encode(s, v)
      [] type.kind = "UInt8" -> UInt8Encode(s, v)
      [] type.kind = "UInt16" -> UInt16Encode(s, v)
      [] type.kind = "UInt32" -> UInt32Encode(s, v)
      [] type.kind = "Float32" -> Float32Encode(s, v)
      [] type.kind = "Float64" -> Float64Encode(s, v)
      [] type.kind = "Bool" -> BoolEncode(s, v)
      [] type.kind = "VarInt" -> VarIntEncode(s, v)
      [] type.kind = "ByteArray" -> ByteArrayEncode(s, v)
      [] type.kind = "Str" -> StrEncode(s, v)
      [] type.kind = "MapType" -> MapEncode(type, s, v)
      [] type.kind = "Struct" -> StructEncode(type.definition, s, v)
      [] type.kind = "StructArray" -> StructArrayEncode(type, s, v)
      [] type.kind = "ArrayType" -> ArrayEncode(type, s, v)

\* the loop of StructDefinition.decode from field i on; out so far is acc
DecodeFields(fields, d, t, i, acc) ==
    IF i > Len(fields) THEN Got(acc, t)
    ELSE Then(Decode(fields[i][2], d, t), LAMBDA r :
           IF r.err THEN r
           ELSE Then([key \in (DOMAIN acc) \cup {fields[i][1]} |->
                        IF key = fields[i][1] THEN r.v ELSE acc[key]],
                     LAMBDA out1 : DecodeFields(fields, d, r.t, i + 1, out1)))

StructDecode(definition, d, t) == DecodeFields(definition.fields, d, t, 1, <<>>)

\* for (i < count) out[i] = type.decode(d, t)
DecodeAll(type, d, t, count, acc) ==
    IF Len(acc) >= count THEN Got(acc, t)
    ELSE Then(Decode(type, d, t), LAMBDA r :
           IF r.err THEN r
           ELSE Then(Append(acc, r.v), LAMBDA out1 : DecodeAll(type, d, r.t, count, out1)))

DecodeStructs(definition, d, t, count, acc) ==
    IF Len(acc) >= count THEN Got(acc, t)
    ELSE Then(StructDecode(definition, d, t), LAMBDA r :
           IF r.err THEN r
           ELSE Then(Append(acc, r.v),
                     LAMBDA out1 : DecodeStructs(definition, d, r.t, count, out1)))

\* for (i < length) { key = keyType.decode(); out[key] = valueType.decode() }
DecodeEntries(type, d, t, length, i, acc) ==
    IF i >= length THEN Got(acc, t)
    ELSE Then(Decode(type.keyType, d, t), LAMBDA rk :
           IF rk.err THEN rk
           ELSE Then(Decode(type.valueType, d, rk.t), LAMBDA rv :
                  IF rv.err THEN rv
                  ELSE Then(ObjSet(acc, PropertyKey(type.keyType, rk.v), rv.v),
                            LAMBDA out1 : DecodeEntries(type, d, rv.t, length, i + 1, out1))))

MapDecode(type, d, t) ==
    Then(VarIntDecode(d, t), LAMBDA r :
      IF r.err THEN r ELSE DecodeEntries(type, d, r.t, r.v.m, 0, <<>>))

\* new Array(count) throws a RangeError for a negative count
StructArrayDecode(type, d, t) ==
    Then(VarIntDecode(d, t), LAMBDA r :
      IF r.err THEN r
      ELSE IF r.v.m < 0 THEN Threw(r.t)
      ELSE DecodeStructs(type.definition, d, r.t, r.v.m, <<>>))

ArrayDecode(type, d, t) ==
    Then(VarIntDecode(d, t), LAMBDA r :
      IF r.err THEN r
      ELSE IF r.v.m < 0 THEN Threw(r.t)
      ELSE DecodeAll(type.type, d, r.t, r.v.m, <<>>))

\* type.decode(d, t)
Decode(type, d, t) ==
    CASE type.kind = "Int8" -> Int8Decode(d, t)
      [] type.kind = "Int16" -> Int16Decode(d, t)
      [] type.kind = "Int32" -> Int32Decode(d, t)
      [] type.kind = "UInt8" -> UInt8Decode(d, t)
      [] type.kind = "UInt16" -> UInt16Decode(d, t)
      [] type.kind = "UInt32" -> UInt32Decode(d, t)
      [] type.kind = "Float32" -> Float32Decode(d, t)
      [] type.kind = "Float64" -> Float64Decode(d, t)
      [] type.kind = "Bool" -> BoolDecode(d, t)
      [] type.kind = "VarInt" -> VarIntDecode(d, t)
      [] type.kind = "ByteArray" -> ByteArrayDecode(d, t)
      [] type.kind = "Str" -> StrDecode(d, t)
      [] type.kind = "MapType" -> MapDecode(type, d, t)
      [] type.kind = "Struct" -> StructDecode(type.definition, d, t)
      [] type.kind = "StructArray" -> StructArrayDecode(type, d, t)
      [] type.kind = "ArrayType" -> ArrayDecode(type, d, t)

---------------------------------------------------------------------------
(* The values the DataTypes are exercised on *)

\* binary64 patterns
F0 == <<0, 0, 0, 0, 0, 0, 0, 0>>
F1 == <<63, 240, 0, 0, 0, 0, 0, 0>>
F2 == <<64, 0, 0, 0, 0, 0, 0, 0>>
FHalf == <<63, 224, 0, 0, 0, 0, 0, 0>>
FMinus1p5 == <<191, 248, 0, 0, 0, 0, 0, 0>>
FTenth == <<63, 185, 153, 153, 153, 153, 153, 154>>

Two31 == [k |-> 1, m |-> MinInt32]
Two32 == [k |-> 1, m |-> 0]
MaxUInt32 == [k |-> 1, m |-> -1]

LongStr == [i \in 1..LongLen |-> 97 + (i % 26)]
Strings == {<<>>, <<97>>, <<97, 98>>, <<233, 255>>, LongStr}
WideStr == <<8364, 97>>

SeqsUpTo(S, n) == UNION {[1..len -> S] : len \in 0..n}

RECURSIVE FromEntries(_, _)
\* the object built by setting the entries in order
FromEntries(entries, i) ==
    IF i = 0 THEN <<>>
    ELSE ObjSet(FromEntries(entries, i - 1), entries[i][1], entries[i][2])

Objects(keys, vals) ==
    {FromEntries(e, Len(e)) :
        e \in {q \in SeqsUpTo(keys \X vals, MaxCount) :
                 \A i, j \in 1..Len(q) : q[i][1] = q[j][1] => i = j}}

U8Str == << <<"a", UInt8>>, <<"s", Str>> >>
XYZ == << <<"x", UInt16>>, <<"y", UInt8>>, <<"z", Str>> >>

TypeNames ==
    {"Int8", "Int16", "Int32", "UInt8", "UInt16", "UInt32", "Float32", "Float64",
     "Bool", "VarInt", "ByteArray", "Str", "StructU8Str", "StructXYZ", "StructZXY",
     "StructArray", "ArrayU16", "MapStrU8", "MapU8Str", "MapVarIntU16"}

TypeOf(name) ==
    CASE name = "Int8" -> Int8
      [] name = "Int16" -> Int16
      [] name = "Int32" -> Int32
      [] name = "UInt8" -> UInt8
      [] name = "UInt16" -> UInt16
      [] name = "UInt32" -> UInt32
      [] name = "Float32" -> Float32
      [] name = "Float64" -> Float64
      [] name = "Bool" -> Bool
      [] name = "VarInt" -> VarInt
      [] name = "ByteArray" -> ByteArray
      [] name = "Str" -> Str
      [] name = "StructU8Str" -> Struct(U8Str, <<"a", "s">>)
      [] name = "StructXYZ" -> Struct(XYZ, <<"x", "y", "z">>)
      [] name = "StructZXY" -> Struct(XYZ, <<"z", "x", "y">>)
      [] name = "StructArray" -> StructArray(U8Str, <<"a", "s">>)
      [] name = "ArrayU16" -> ArrayType(UInt16)
      [] name = "MapStrU8" -> MapType(Str, UInt8)
      [] name = "MapU8Str" -> MapType(UInt8, Str)
      [] name = "MapVarIntU16" -> MapType(VarInt, UInt16)

U8StrValues == {[a |-> N(a), s |-> str] : a \in {0, 255}, str \in Strings \cup {WideStr}}
XYZValues == {[x |-> N(x), y |-> N(y), z |-> str] :
                x \in {258, 65535}, y \in {7}, str \in {<<>>, <<97, 98>>}}
ShortU8Str == {[a |-> N(a), s |-> str] : a \in {0, 255}, str \in {<<>>, <<97, 98>>}}

\* the values of each DataType's declared range the model draws from
Values(name) ==
    CASE name = "Int8" -> {N(-128), N(-1), N(0), N(127)}
      [] name = "Int16" -> {N(-32768), N(-2), N(258), N(32767)}
      [] name = "Int32" -> {N(MinInt32), N(-1), N(65539), N(2147483647)}
      [] name = "UInt8" -> {N(0), N(5), N(255)}
      [] name = "UInt16" -> {N(0), N(258), N(65535)}
      [] name = "UInt32" -> {N(0), N(16909060), Two31, MaxUInt32}
      [] name = "Float32" -> {F0, F1, F2, FHalf, FMinus1p5}
      [] name = "Float64" -> {F0, F1, FTenth, FMinus1p5}
      [] name = "Bool" -> {TRUE, FALSE}
      [] name = "VarInt" -> {N(0), N(1), N(127), N(128), N(300), N(16383), N(16384),
                             N(2097152), N(2147483647), Two31, Two32,
                             [k |-> 1, m |-> 300], [k |-> 2097151, m |-> -1]}
      [] name = "ByteArray" -> {<<>>, <<0>>, <<1, 255>>, [i \in 1..130 |-> i]}
      [] name = "Str" -> Strings \cup {WideStr}
      [] name = "StructU8Str" -> U8StrValues
      [] name = "StructXYZ" -> XYZValues
      [] name = "StructZXY" -> XYZValues
      [] name = "StructArray" -> SeqsUpTo(ShortU8Str, MaxCount)
      [] name = "ArrayU16" -> SeqsUpTo({N(0), N(258)}, MaxCount)
      [] name = "MapStrU8" -> Objects({<<97>>, <<98, 99>>, <<49>>}, {N(0), N(255)})
      [] name = "MapU8Str" -> Objects({<<53>>, <<49>>, <<50, 53, 53>>}, {<<>>, <<97, 98>>})
      [] name = "MapVarIntU16" -> Objects({<<51, 48, 48>>, <<50>>}, {N(258), N(65535)})

---------------------------------------------------------------------------
(* Packet definitions.  TestPacket is the README's; UserFirst shares its   *)
(* id and layout with the keys the other way round.                        *)

NameUser == << <<"name", Str>>, <<"user", UInt8>> >>

PacketNames == {"TestPacket", "UserFirst", "Big", "FloatPacket", "FloatFirst"}

Packet(name) ==
    CASE name = "TestPacket" -> PacketDefinition(N(2), NameUser, <<"name", "user">>)
      [] name = "UserFirst" -> PacketDefinition(N(2), NameUser, <<"user", "name">>)
      [] name = "Big" ->
           PacketDefinition(N(300), << <<"flag", Bool>>, <<"n", VarInt>> >>, <<"flag", "n">>)
      [] name = "FloatPacket" -> PacketDefinition(N(3), << <<"f", Float32>> >>, <<"f">>)
      [] name = "FloatFirst" ->
           PacketDefinition(N(4), << <<"f", Float32>>, <<"s", Str>> >>, <<"f", "s">>)

Ab5 == [name |-> <<97, 98>>, user |-> N(5)]

PacketData(name) ==
    CASE name \in {"TestPacket", "UserFirst"} -> {Ab5, [name |-> <<>>, user |-> N(255)]}
      [] name = "Big" -> {[flag |-> TRUE, n |-> N(128)], [flag |-> FALSE, n |-> N(0)]}
      [] name = "FloatPacket" -> {[f |-> F1]}
      [] name = "FloatFirst" -> {[f |-> F1, s |-> <<97, 98, 99, 100>>], [f |-> FTenth, s |-> <<>>]}

---------------------------------------------------------------------------
(* PacketDefinition.create, src/unnamed/part_000 lines 86-93.  The result  *)
(* is [buffer, t, err]: the buffer returned, the offset the tracker is     *)
(* left at, and whether the call threw (it then returns no buffer and      *)
(* never reaches writeTracker.reset()).                                    *)

\* a create that writes the body before the id
PacketCreateBodyFirst(definition, t, data) ==
    Then([i \in 1..(VarIntSize(definition.id) + computeSize(definition, data)) |-> 0],
         LAMBDA buffer :
           Then(VarIntEncode(StructEncode(definition, Pass(buffer, t), data), definition.id),
                LAMBDA s : IF s.err THEN [buffer |-> <<>>, t |-> s.t, err |-> TRUE]
                           ELSE [buffer |-> s.d, t |-> 0, err |-> FALSE]))

\* a create without the t.reset() of line 91
PacketCreateNoReset(definition, t, data) ==
    Then([i \in 1..(VarIntSize(definition.id) + computeSize(definition, data)) |-> 0],
         LAMBDA buffer :
           Then(StructEncode(definition, VarIntEncode(Pass(buffer, t), definition.id), data),
                LAMBDA s : IF s.err THEN [buffer |-> <<>>, t |-> s.t, err |-> TRUE]
                           ELSE [buffer |-> s.d, t |-> s.t, err |-> FALSE]))

PacketCreate(definition, t, data) ==
    Then([i \in 1..(VarIntSize(definition.id) + computeSize(definition, data)) |-> 0],
         LAMBDA buffer :
           Then(StructEncode(definition, VarIntEncode(Pass(buffer, t), definition.id), data),
                LAMBDA s : IF s.err THEN [buffer |-> <<>>, t |-> s.t, err |-> TRUE]
                           ELSE [buffer |-> s.d, t |-> 0, err |-> FALSE]))

\* the receiving end of ws.onmessage, lines 84-88 of src/src/socket.ts, for a
\* definition that is known: the id read as a VarInt, then definition.decode
ReadPacket(definition, buffer, t) ==
    Then(VarIntDecode(buffer, t), LAMBDA r :
      IF r.err THEN [id |-> N(0), out |-> <<>>, t |-> r.t, err |-> TRUE]
      ELSE Then(StructDecode(definition, buffer, r.t), LAMBDA b :
             IF b.err THEN [id |-> r.v, out |-> <<>>, t |-> b.t, err |-> TRUE]
             ELSE [id |-> r.v, out |-> b.v, t |-> b.t, err |-> FALSE]))

---------------------------------------------------------------------------
(* BinarySocket's state after construction, src/src/socket.ts lines 29-45 *)

NoCall == [op |-> "none"]

SendInit ==
    /\ writeTracker = 0
    /\ created = [op |-> "none", calls |-> 0]

RecvInit ==
    /\ definitions = <<>>
    /\ packetListeners = <<>>
    /\ readTracker = 0
    /\ handled = NoCall
    /\ history = [defined |-> <<>>, listening |-> <<>>]

\* eventListeners = {open: undefined, close: undefined}
Undefined == [defined |-> FALSE, list |-> <<>>]

\* new BinarySocket(url, config): this.ws = this.createConnection()
ConnInitWith(cfg) ==
    /\ config = cfg
    /\ sockets = <<"connecting">>
    /\ ws = 1
    /\ timers = 0
    /\ eventListeners = [open |-> Undefined, close |-> Undefined]
    /\ fired = NoCall
    /\ registered = [open |-> <<>>, close |-> <<>>, call |-> NoCall]

\* new BinarySocket(url): config = {}
ConnIdle == ConnInitWith(<<>>)

CodecIdle ==
    /\ pc = "idle"
    /\ dtype = "none"
    /\ value = <<>>
    /\ start = 0
    /\ blank = <<>>
    /\ view = <<>>
    /\ tracker = 0
    /\ err = FALSE
    /\ out = <<>>

---------------------------------------------------------------------------
(* One use of a DataType: the caller sizes a buffer for v, encodes v at    *)
(* the cursor's offset, and decodes the result from the same offset.       *)

CodecInit ==
    /\ \E name \in TypeNames : \E v \in Values(name) :
         \E o \in 0..MaxStart, slack \in 0..MaxSlack, fill \in {0, 255} :
            /\ dtype = name
            /\ value = v
            /\ start = o
            /\ blank = [i \in 1..(o + Size(TypeOf(name), v) + slack) |-> fill]
    /\ view = blank
    /\ tracker = start
    /\ pc = "start"
    /\ err = FALSE
    /\ out = <<>>
    /\ SendInit
    /\ RecvInit
    /\ ConnIdle

\* type.encode(d, t, v)
EncodeStep ==
    /\ pc = "start"
    /\ \E s \in {Encode(TypeOf(dtype), Pass(view, tracker), value)} :
          /\ view' = s.d
          /\ tracker' = s.t
          /\ err' = s.err
    /\ pc' = "encoded"
    /\ UNCHANGED <<connVars, dtype, value, start, blank, out, sendVars, recvVars>>

\* type.decode(d, t) with the cursor back at the start offset
DecodeStep ==
    /\ pc = "encoded"
    /\ ~err
    /\ \E r \in {Decode(TypeOf(dtype), view, start)} :
          /\ out' = r.v
          /\ tracker' = r.t
          /\ err' = r.err
    /\ pc' = "decoded"
    /\ UNCHANGED <<connVars, dtype, value, start, blank, view, sendVars, recvVars>>

CodecNext == EncodeStep \/ DecodeStep

SpecCodec == CodecInit /\ [][CodecNext]_vars

---------------------------------------------------------------------------
(* Properties of the DataTypes, under SpecCodec *)

\* the declared size of the value under test
DeclaredSize == Size(TypeOf(dtype), value)

\* the bytes between the start offset and the cursor
Written == SubSeq(view, start + 1, tracker)

FixedWidthNames ==
    {"Int8", "Int16", "Int32", "UInt8", "UInt16", "UInt32", "Float32", "Float64", "Bool"}

\* C2: for every DataType and value, encode changes only the bytes in
\* [o, o + size(v)) and moves the cursor by exactly size(v) (so a buffer of
\* exactly size(v) bytes suffices), and decode moves it by size(v) too.
C2_SizeEncodeDecodeAgree ==
    /\ pc = "encoded" =>
         /\ ~err
         /\ tracker = start + DeclaredSize
         /\ \A i \in 1..Len(view) :
              (i <= start \/ i > start + DeclaredSize) => view[i] = blank[i]
    /\ pc = "decoded" => ~err /\ tracker = start + DeclaredSize

\* C3: VarInt.decode of the bytes VarInt.encode wrote for v returns v, for
\* every v of the declared range 0 .. 2^64 - 1.
C3_VarIntRoundTrip ==
    (dtype = "VarInt" /\ pc = "decoded") => (~err /\ out = value)

\* C4: every fixed-width DataType decodes what it encoded, for every value
\* of its declared range.
C4_FixedWidthRoundTrip ==
    /\ (dtype \in FixedWidthNames /\ pc = "encoded") => ~err
    /\ (dtype \in FixedWidthNames /\ pc = "decoded") => (~err /\ out = value)

\* the number of 7-bit groups of a non-negative int32
Groups(m) ==
    IF m < 128 THEN 1 ELSE IF m < 16384 THEN 2 ELSE IF m < 2097152 THEN 3
    ELSE IF m < 268435456 THEN 4 ELSE 5

\* C5: VarInt.encode emits the 7-bit groups least significant first, bit 7
\* set on every byte but the last; 0, 127, 128, 300 and 16384 encode to the
\* listed bytes, and VarInt.size is the length of the encoding.
C5_VarIntVectors ==
    (dtype = "VarInt" /\ pc = "encoded" /\ value.k = 0 /\ value.m >= 0) =>
        /\ ~err
        /\ Len(Written) = Groups(value.m)
        /\ VarIntSize(value) = Len(Written)
        /\ \A i \in 1..Len(Written) :
             Written[i] = ((value.m \div (128 ^ (i - 1))) % 128)
                          + (IF i < Len(Written) THEN 128 ELSE 0)
        /\ value = N(0) => Written = <<0>>
        /\ value = N(127) => Written = <<127>>
        /\ value = N(128) => Written = <<128, 1>>
        /\ value = N(300) => Written = <<172, 2>>
        /\ value = N(16384) => Written = <<128, 128, 1>>

C5_Witness ==
    /\ dtype = "VarInt" /\ pc = "encoded" /\ value = N(16384)
    /\ Written = <<128, 128, 1>>

\* the encoding of v alone, in a buffer of its own
Alone(type, v) == Encode(type, Pass([i \in 1..Size(type, v) |-> 0], 0), v).d

RECURSIVE InOrder(_, _, _, _)
\* the encodings of the fields named by keys, from index i on, end to end
InOrder(keys, layout, struct, i) ==
    IF i > Len(keys) THEN <<>>
    ELSE Alone(ObjGet(layout, keys[i]), struct[keys[i]]) \o InOrder(keys, layout, struct, i + 1)

XYZSample == [x |-> N(258), y |-> N(7), z |-> <<97, 98>>]

\* C8: a struct is written field after field with nothing in between, in the
\* order of the keys sequence and not of the layout mapping, and read back in
\* that order; two definitions over one layout with different key orders
\* produce the correspondingly different bytes.
C8_KeysOrderIsWireOrder ==
    /\ (dtype = "StructXYZ" /\ pc = "encoded") =>
          /\ ~err
          /\ Written = InOrder(<<"x", "y", "z">>, XYZ, value, 1)
          /\ value = XYZSample => Written = <<1, 2, 7, 2, 97, 98>>
    /\ (dtype = "StructZXY" /\ pc = "encoded") =>
          /\ ~err
          /\ Written = InOrder(<<"z", "x", "y">>, XYZ, value, 1)
          /\ value = XYZSample => Written = <<2, 97, 98, 1, 2, 7>>
    /\ (dtype \in {"StructXYZ", "StructZXY"} /\ pc = "decoded") =>
          /\ ~err
          /\ out = value
          /\ tracker = start + Len(InOrder(<<"x", "y", "z">>, XYZ, value, 1))

C8_Witness ==
    /\ dtype = "StructZXY" /\ pc = "decoded" /\ value = XYZSample /\ out = XYZSample
    /\ SubSeq(view, start + 1, tracker) = <<2, 97, 98, 1, 2, 7>>

Latin1(str) == \A i \in 1..Len(str) : str[i] <= 255

\* C9: a struct of a UInt8 and a Str round-trips for strings of any length
\* (0, 1, 1000) whose code units are at most 255, and the encoding fills a
\* buffer of computeSize(value) bytes exactly.
C9_StructWithStrRoundTrip ==
    (dtype = "StructU8Str" /\ Latin1(value.s)) =>
        /\ pc = "encoded" =>
             /\ ~err
             /\ Len(Written) = computeSize(TypeOf(dtype).definition, value)
             /\ Len(Written) = 1 + (IF Len(value.s) < 128 THEN 1 ELSE 2) + Len(value.s)
        /\ pc = "decoded" => (~err /\ out = value)

C9_Witness ==
    /\ dtype = "StructU8Str" /\ pc = "decoded" /\ ~err
    /\ Len(value.s) = LongLen /\ out = value
    /\ Len(view) = start + computeSize(TypeOf(dtype).definition, value)

\* the bytes one entry of the array or map under test takes, counted from
\* the wire format: a UInt8 takes 1, a UInt16 2, a Str 1 + its length (all
\* strings here are short), a VarInt key 1 below 128 and 2 below 16384
EntryBytes(name, entry) ==
    CASE name = "StructArray" -> 1 + (1 + Len(entry.s))
      [] name = "MapStrU8" -> (1 + Len(entry[1])) + 1
      [] name = "MapU8Str" -> 1 + (1 + Len(entry[2]))
      [] name = "MapVarIntU16" -> (IF ToNumber(entry[1]).m < 128 THEN 1 ELSE 2) + 2

RECURSIVE SumEntries(_, _, _)
SumEntries(name, entries, i) ==
    IF i > Len(entries) THEN 0
    ELSE EntryBytes(name, entries[i]) + SumEntries(name, entries, i + 1)

MapNames == {"MapStrU8", "MapU8Str", "MapVarIntU16"}

Entries(obj) == {obj[i] : i \in 1..Len(obj)}

\* C10: a StructArray or MapType value of 0, 1 or many entries decodes to
\* exactly its entries (an array in order, a map as a set of key/value
\* pairs), and its size is VarIntSize(count) plus the entries' sizes, which
\* is the number of bytes encode writes.
C10_ArrayAndMapRoundTrip ==
    (dtype \in MapNames \cup {"StructArray"}) =>
        /\ pc = "encoded" =>
             /\ ~err
             /\ DeclaredSize = 1 + SumEntries(dtype, value, 1)
             /\ Len(Written) = DeclaredSize
        /\ (pc = "decoded" /\ dtype = "StructArray") => (~err /\ out = value)
        /\ (pc = "decoded" /\ dtype \in MapNames) =>
             /\ ~err
             /\ Len(out) = Len(value)
             /\ Entries(out) = Entries(value)

C10_Witness ==
    /\ dtype = "MapStrU8" /\ pc = "decoded" /\ ~err
    /\ Len(value) = MaxCount
    /\ Entries(out) = Entries(value)
    /\ ObjectKeys(value)[1] = <<49>>

---------------------------------------------------------------------------
(* The write side of BinarySocket: send and createBuffer share             *)
(* this.writeTracker; the buffers that were sent reach a peer that reads   *)
(* them with the same definition.                                          *)

\* definition.create(this.writeTracker, data), and what became of it
Create(op, name, data) ==
    /\ created.calls < MaxCalls
    /\ \E c \in {PacketCreate(Packet(name), writeTracker, data)} :
          /\ created' = [op |-> op, def |-> name, data |-> data, start |-> writeTracker,
                         returned |-> ~c.err, buffer |-> c.buffer,
                         calls |-> created.calls + 1]
          /\ writeTracker' = c.t

\* send(definition, data), src/src/socket.ts lines 103-106
Send ==
    /\ \E name \in PacketNames : \E data \in PacketData(name) : Create("send", name, data)
    /\ UNCHANGED <<connVars, codecVars, recvVars>>

\* createBuffer(definition, data), src/src/socket.ts lines 108-110
CreateBuffer ==
    /\ \E name \in PacketNames : \E data \in PacketData(name) :
          Create("createBuffer", name, data)
    /\ UNCHANGED <<connVars, codecVars, recvVars>>

\* the peer reads the buffer that was sent last, its cursor at 0
PeerRead ==
    /\ created.op = "send"
    /\ created.returned
    /\ \E r \in {ReadPacket(Packet(created.def), created.buffer, 0)} :
          handled' = [op |-> "read", def |-> created.def, buffer |-> created.buffer,
                      id |-> r.id, out |-> r.out, threw |-> r.err]
    /\ UNCHANGED <<connVars, codecVars, sendVars, definitions, packetListeners, readTracker, history>>

SendSideInit == CodecIdle /\ SendInit /\ RecvInit /\ ConnIdle

SendNext == Send \/ CreateBuffer \/ PeerRead

SpecSend == SendSideInit /\ [][SendNext]_vars

C6_CreateLeavesCursorAtZero ==
    (created.op # "none" /\ created.returned) =>
        /\ writeTracker = 0
        /\ created.start = 0
        /\ Len(created.buffer) = VarIntSize(Packet(created.def).id)
                                 + computeSize(Packet(created.def), created.data)
        /\ created.buffer =
             StructEncode(Packet(created.def),
                          VarIntEncode(Pass([i \in 1..Len(created.buffer) |-> 0], 0),
                                       Packet(created.def).id),
                          created.data).d

C6_Witness ==
    /\ created.op = "createBuffer" /\ created.returned /\ created.calls = MaxCalls
    /\ created.def = "Big" /\ created.data.n = N(128)
    /\ created.buffer = <<172, 2, 1, 128, 1>>
    /\ writeTracker = 0

\* C15: every create call on the shared cursor, also one that follows a
\* call that threw partway through encoding, starts writing at offset 0 of
\* its own buffer: a create that throws leaves the cursor at 0 as well.
C15_ThrowingCreateLeavesCursorAtZero ==
    /\ writeTracker = 0
    /\ created.op # "none" => created.start = 0

---------------------------------------------------------------------------
(* The read side of BinarySocket: definePacket, definePackets, addListener *)
(* and removeListener fill this.definitions and this.packetListeners, and  *)
(* ws.onmessage reads every incoming buffer through this.readTracker.      *)
(* A listener is a name; the listener "Bad" throws when it is called.      *)

Handlers == {"A", "B", "Bad"}

\* the definitions the application registers and listens for
RecvPackets == {"TestPacket", "UserFirst", "Big"}

\* ids are property keys of this.definitions and this.packetListeners
IdKey(id) == NumToStr(id)

\* this.definitions[packet.id] = packet, src/src/socket.ts line 117
Define(defs, name) == ObjSet(defs, IdKey(Packet(name).id), name)

RECURSIVE DefineAll(_, _)
DefineAll(defs, names) ==
    IF names = <<>> THEN defs ELSE DefineAll(Define(defs, Head(names)), Tail(names))

\* the history keeps one entry per id: Noted writes it, NotedOr reads it
Noted(f, id, v) == [x \in DOMAIN f \cup {id} |-> IF x = id THEN v ELSE f[x]]

NotedOr(f, id, none) == IF id \in DOMAIN f THEN f[id] ELSE none

\* src/src/socket.ts lines 135-145: removing a handler leaves the other
\* listeners in the order they were added; removing without one leaves none
StillListening(listeners, handler) ==
    IF handler = "none" THEN <<>>
    ELSE SelectSeq(listeners, LAMBDA v : v # handler)

DefinePacket ==
    /\ \E name \in RecvPackets :
          /\ definitions' = Define(definitions, name)
          /\ history' = [history EXCEPT !.defined = Noted(@, Packet(name).id, name)]
    /\ UNCHANGED <<connVars, codecVars, sendVars, packetListeners, readTracker, handled>>

\* definePackets(first, second), src/src/socket.ts lines 120-124
DefinePackets ==
    /\ \E first, second \in RecvPackets :
          /\ definitions' = DefineAll(definitions, <<first, second>>)
          /\ history' = [history EXCEPT
                           !.defined = Noted(Noted(@, Packet(first).id, first),
                                             Packet(second).id, second)]
    /\ UNCHANGED <<connVars, codecVars, sendVars, packetListeners, readTracker, handled>>

ListenersOf(lsts, key) == IF HasKey(lsts, key) THEN ObjGet(lsts, key) ELSE <<>>

RECURSIVE Registered(_, _)
\* how many listeners are registered in all
Registered(lsts, i) ==
    IF i > Len(lsts) THEN 0 ELSE Len(lsts[i][2]) + Registered(lsts, i + 1)

AddListener ==
    /\ \E name \in RecvPackets, handler \in Handlers :
          \E key \in {IdKey(Packet(name).id)} :
             /\ Registered(packetListeners, 1) < MaxListeners
             /\ packetListeners' =
                  ObjSet(packetListeners, key,
                         Append(ListenersOf(packetListeners, key), handler))
             /\ history' = [history EXCEPT
                              !.listening =
                                 Noted(@, Packet(name).id,
                                       Append(NotedOr(@, Packet(name).id, <<>>), handler))]
    /\ UNCHANGED <<connVars, codecVars, sendVars, definitions, readTracker, handled>>

\* listeners.filter(v => v !== handler)
Without(listeners, handler) == SelectSeq(listeners, LAMBDA v : v # handler)

\* removeListener(definition, handler?); "none" is a call without handler
RemoveListener ==
    /\ \E name \in RecvPackets, handler \in Handlers \cup {"none"} :
          \E key \in {IdKey(Packet(name).id)} :
             /\ packetListeners' =
                   IF HasKey(packetListeners, key)
                   THEN IF handler # "none"
                        THEN ObjSet(packetListeners, key,
                                    Without(ObjGet(packetListeners, key), handler))
                        ELSE ObjSet(packetListeners, key, <<>>)
                   ELSE packetListeners
             /\ history' =
                   IF Packet(name).id \in DOMAIN history.listening
                   THEN [history EXCEPT
                           !.listening =
                              Noted(@, Packet(name).id,
                                    StillListening(@[Packet(name).id], handler))]
                   ELSE history
    /\ UNCHANGED <<connVars, codecVars, sendVars, definitions, readTracker, handled>>

\* for (let listener of listeners) listener(out): the listeners that were
\* called, the last of them being the one that threw, if one did
FirstBad(listeners) ==
    IF \E i \in 1..Len(listeners) : listeners[i] = "Bad"
    THEN CHOOSE i \in 1..Len(listeners) :
            listeners[i] = "Bad" /\ \A j \in 1..(i - 1) : listeners[j] # "Bad"
    ELSE 0

Invoked(listeners) ==
    IF FirstBad(listeners) = 0 THEN listeners ELSE SubSeq(listeners, 1, FirstBad(listeners))

\* what one message does: the id read, the definition found ("none" when
\* there is none), the value decoded, the listeners called, the offset
\* reading stopped at, whether the handler threw, and the offset the
\* tracker is left at (0 only when line 98 was reached)
Handling(id, definition, out2, invoked, reached, threw) ==
    [id |-> id, definition |-> definition, out |-> out2, invoked |-> invoked,
     reached |-> reached, threw |-> threw, t |-> IF threw THEN reached ELSE 0]

HandleMessage(defs, lsts, buffer, t) ==
    Then(VarIntDecode(buffer, t), LAMBDA r :
      IF r.err THEN Handling(N(0), "none", <<>>, <<>>, r.t, TRUE)
      ELSE IF ~HasKey(defs, IdKey(r.v))
           THEN Handling(r.v, "none", <<>>, <<>>, r.t, FALSE)
           ELSE Then(StructDecode(Packet(ObjGet(defs, IdKey(r.v))), buffer, r.t), LAMBDA b :
                  IF b.err
                  THEN Handling(r.v, ObjGet(defs, IdKey(r.v)), <<>>, <<>>, b.t, TRUE)
                  ELSE Handling(r.v, ObjGet(defs, IdKey(r.v)), b.v,
                                Invoked(ListenersOf(lsts, IdKey(r.v))), b.t,
                                FirstBad(ListenersOf(lsts, IdKey(r.v))) # 0)))

\* the buffers the peer sends: packets as create builds them, the same
\* with the last byte missing, a packet with an id nobody defines, and an
\* empty buffer
Sample(name) == IF name = "Big" THEN [flag |-> TRUE, n |-> N(128)] ELSE Ab5

Whole == {PacketCreate(Packet(name), 0, Sample(name)).buffer : name \in RecvPackets}

Truncated == {SubSeq(b, 1, Len(b) - 1) : b \in Whole}

Unregistered == <<9, 1>>

\* the id a message carries: the VarInt at the start of its buffer
CarriedId(buffer) == VarIntDecode(buffer, 0)

\* a TestPacket that the UserFirst definition of the same id decodes too
Shared == PacketCreate(Packet("TestPacket"), 0, [name |-> <<0>>, user |-> N(1)]).buffer

Incoming == Whole \cup Truncated \cup {Shared, Unregistered, <<>>}

OnMessage ==
    /\ readTracker <= MaxTracker
    /\ \E buffer \in Incoming :
          \E h \in {HandleMessage(definitions, packetListeners, buffer, readTracker)} :
             /\ handled' = [op |-> "message", buffer |-> buffer, start |-> readTracker,
                            id |-> h.id, definition |-> h.definition, out |-> h.out,
                            invoked |-> h.invoked, reached |-> h.reached,
                            threw |-> h.threw]
             /\ readTracker' = h.t
    /\ UNCHANGED <<connVars, codecVars, sendVars, definitions, packetListeners, history>>

RecvSideInit == CodecIdle /\ SendInit /\ RecvInit /\ ConnIdle

RecvNext ==
    \/ DefinePacket
    \/ DefinePackets
    \/ AddListener
    \/ RemoveListener
    \/ OnMessage

SpecRecv == RecvSideInit /\ [][RecvNext]_vars

\* C7: the read cursor is reset after every incoming message is handled,
\* whether its id is registered or not, whether the buffer is shorter than
\* the definition needs, and whether a listener throws: every message is
\* read from offset 0 of its own buffer.
C7_ReadCursorAlwaysReset ==
    /\ readTracker = 0
    /\ handled.op = "message" => handled.start = 0

\* C11: a message that carries an id no definition is registered for raises
\* no error, is decoded by no definition and reaches no listener; nothing
\* beyond the id is read, and the read cursor is left at 0.
C11_UnregisteredIdIgnored ==
    (/\ handled.op = "message"
     /\ ~CarriedId(handled.buffer).err
     /\ ~HasKey(definitions, IdKey(CarriedId(handled.buffer).v))) =>
        /\ ~handled.threw
        /\ handled.id = CarriedId(handled.buffer).v
        /\ handled.definition = "none"
        /\ handled.invoked = <<>>
        /\ handled.reached = CarriedId(handled.buffer).t
        /\ readTracker = 0

\* the definition registered last for the id a message carries ("none" when
\* there is none), the listeners registered for that id, and what that
\* definition decodes from the message, read from its first byte
DefinedLast(buffer) ==
    IF CarriedId(buffer).err THEN "none"
    ELSE NotedOr(history.defined, CarriedId(buffer).v, "none")

Listening(buffer) == NotedOr(history.listening, CarriedId(buffer).v, <<>>)

DecodedBy(name, buffer) == StructDecode(Packet(name), buffer, CarriedId(buffer).t)

\* C16: after any definePacket(s), addListener and removeListener calls, a
\* message whose id has a registered definition (one that definition can
\* decode, with listeners that return) invokes each listener registered for
\* that id at that moment exactly once, in registration order, with the
\* value decoded by the definition registered last for that id, and invokes
\* no listener of another id.
C16_EachListenerOnceInOrder ==
    [][(/\ OnMessage
        /\ DefinedLast(handled'.buffer) # "none"
        /\ ~DecodedBy(DefinedLast(handled'.buffer), handled'.buffer).err
        /\ \A i \in 1..Len(Listening(handled'.buffer)) :
              Listening(handled'.buffer)[i] # "Bad") =>
           /\ handled'.definition = DefinedLast(handled'.buffer)
           /\ handled'.out = DecodedBy(DefinedLast(handled'.buffer), handled'.buffer).v
           /\ handled'.invoked = Listening(handled'.buffer)]_vars

---------------------------------------------------------------------------
(* VarInt.decode on byte sequences of any shape: a run of bytes with the   *)
(* continuation bit set, then nothing, or a byte without it, alone or      *)
(* followed by one more byte; read from offsets 0..MaxStart.               *)

Continued == {128, 129, 255}
Final == {0, 1, 2, 127}

Tails == {<<>>} \cup {<<b>> : b \in Final} \cup {<<b, 255>> : b \in Final}

ByteRuns ==
    {[i \in 1..run |-> c] \o tail : run \in 0..MaxRun, c \in Continued, tail \in Tails}

VarIntInit ==
    /\ dtype = "VarInt"
    /\ pc = "bytes"
    /\ value = <<>>
    /\ \E o \in 0..MaxStart, bytes \in ByteRuns :
          /\ start = o
          /\ blank = [i \in 1..o |-> 255] \o bytes
    /\ view = blank
    /\ tracker = start
    /\ err = FALSE
    /\ out = <<>>
    /\ SendInit
    /\ RecvInit
    /\ ConnIdle

\* VarInt.decode(d, t)
VarIntRead ==
    /\ pc = "bytes"
    /\ \E r \in {VarIntDecode(view, tracker)} :
          /\ out' = r.v
          /\ tracker' = r.t
          /\ err' = r.err
    /\ pc' = "read"
    /\ UNCHANGED <<connVars, dtype, value, start, blank, view, sendVars, recvVars>>

SpecVarInt == VarIntInit /\ [][VarIntRead]_vars

\* the bytes from the start offset to the end of the buffer
Available == Len(view) - start

\* the first of the bytes at start + 1 .. start + n without the continuation
\* bit, 0 when they all have it
FirstFinal(n) ==
    IF \E i \in 1..n : view[start + i] < 128
    THEN CHOOSE i \in 1..n : view[start + i] < 128 /\ \A j \in 1..(i - 1) : view[start + j] >= 128
    ELSE 0

\* C12: VarInt.decode ends on every byte sequence, having moved the cursor by
\* at most 10 bytes: it stops right after the first byte whose continuation
\* bit is clear, and after exactly 10 bytes when all of them have it set
\* (with a RangeError one byte past the end when the buffer ends before).
C12_VarIntDecodeAtMostTen ==
    pc = "read" =>
        /\ tracker - start <= VarIntMaxBytes
        /\ IF FirstFinal(IF Available < 10 THEN Available ELSE 10) # 0
           THEN ~err /\ tracker = start + FirstFinal(IF Available < 10 THEN Available ELSE 10)
           ELSE IF Available >= 10
                THEN ~err /\ tracker = start + 10
                ELSE err /\ tracker = start + Available + 1

C12_Witness ==
    /\ pc = "read" /\ ~err
    /\ Available > 10
    /\ \A i \in 1..Available : view[start + i] = 255
    /\ tracker = start + 10

---------------------------------------------------------------------------
(* The connection and its events, src/src/socket.ts lines 65-82 and        *)
(* 147-174.  config is <<>> when reconnectTimeout is left out and <<ms>>   *)
(* when it is given; sockets[i] is the state of the i-th WebSocket made;   *)
(* timers counts the reconnect timeouts that are pending.  An event        *)
(* listener is a name.                                                     *)

EventNames == {"open", "close"}
EventFunctions == {"f", "g"}
Configs == {<<>>, <<0>>, <<1000>>}

\* an array of listeners, which is truthy also when it is empty
Defined(list) == [defined |-> TRUE, list |-> list]

\* the listeners a for ... of over eventListeners[name] visits
EventList(listeners) == IF listeners.defined THEN listeners.list ELSE <<>>

\* addEventListener(event, listener)
AddEvent(listeners, listener) ==
    IF listeners.defined THEN Defined(Append(listeners.list, listener))
    ELSE Defined(<<listener>>)

\* removeEventListener(event) with every listener removed whatever is passed
RemoveEventAll(listeners, listener) ==
    IF listeners.defined THEN Undefined ELSE listeners

\* removeEventListener(event, listener?); "none" is a call without listener
RemoveEvent(listeners, listener) ==
    IF listeners.defined
    THEN IF listener # "none"
         THEN Defined(Without(listeners.list, listener))
         ELSE Undefined
    ELSE listeners

\* a reconnect only for a timeout that is truthy
ConfiguredTruthy(cfg) == cfg # <<>> /\ cfg[1] # 0

\* this.config.reconnectTimeout !== undefined
Configured(cfg) == cfg # <<>>

\* this.event(name, data): what the handler does, in order
Calls(name, listeners) ==
    [i \in 1..Len(EventList(listeners)) |-> <<"call", name, EventList(listeners)[i]>>]

\* ws.onclose: the close listeners, then setTimeout when configured
OnCloseEffects(cfg, listeners) ==
    Calls("close", listeners)
    \o (IF Configured(cfg) THEN << <<"setTimeout", "reconnect", cfg[1]>> >> ELSE <<>>)

RECURSIVE CountAll(_, _)
CountAll(listeners, names) ==
    IF names = {} THEN 0
    ELSE LET name == CHOOSE x \in names : TRUE
         IN Len(EventList(listeners[name])) + CountAll(listeners, names \ {name})

\* the listeners of an event after a call, as the README describes the calls
Kept(list, listener) ==
    IF listener = "none" THEN <<>> ELSE SelectSeq(list, LAMBDA v : v # listener)

AddEventListener ==
    /\ CountAll(eventListeners, EventNames) < MaxEventListeners
    /\ \E event \in EventNames, listener \in EventFunctions :
          /\ eventListeners' =
               [eventListeners EXCEPT ![event] = AddEvent(eventListeners[event], listener)]
          /\ registered' =
               [registered EXCEPT ![event] = Append(registered[event], listener),
                                  !.call = [op |-> "add", event |-> event,
                                            listener |-> listener,
                                            before |-> eventListeners]]
    /\ UNCHANGED <<codecVars, sendVars, recvVars, config, sockets, ws, timers, fired>>

RemoveEventListener ==
    /\ \E event \in EventNames, listener \in EventFunctions \cup {"none"} :
          /\ eventListeners' =
               [eventListeners EXCEPT ![event] = RemoveEvent(eventListeners[event], listener)]
          /\ registered' =
               [registered EXCEPT ![event] = Kept(registered[event], listener),
                                  !.call = [op |-> "remove", event |-> event,
                                            listener |-> listener,
                                            before |-> eventListeners]]
    /\ UNCHANGED <<codecVars, sendVars, recvVars, config, sockets, ws, timers, fired>>

\* ws.onopen of the i-th socket, lines 68-72
SocketOpens ==
    /\ \E i \in 1..Len(sockets) :
          /\ sockets[i] = "connecting"
          /\ sockets' = [sockets EXCEPT ![i] = "open"]
          /\ fired' = [op |-> "event", name |-> "open", socket |-> i,
                       effects |-> Calls("open", eventListeners.open),
                       expected |-> registered.open]
    /\ UNCHANGED <<codecVars, sendVars, recvVars, config, ws, timers, eventListeners,
                   registered>>

\* ws.onclose of the i-th socket, lines 73-82
SocketCloses ==
    /\ Configured(config) => Len(sockets) + timers < MaxSockets
    /\ \E i \in 1..Len(sockets) :
          /\ sockets[i] # "closed"
          /\ sockets' = [sockets EXCEPT ![i] = "closed"]
          /\ fired' = [op |-> "event", name |-> "close", socket |-> i,
                       effects |-> OnCloseEffects(config, eventListeners.close),
                       expected |-> registered.close]
    /\ timers' = IF Configured(config) THEN timers + 1 ELSE timers
    /\ UNCHANGED <<codecVars, sendVars, recvVars, config, ws, eventListeners, registered>>

\* the timeout callback, lines 77-80: this.ws = this.createConnection()
TimerFires ==
    /\ timers > 0
    /\ timers' = timers - 1
    /\ sockets' = Append(sockets, "connecting")
    /\ ws' = Len(sockets) + 1
    /\ UNCHANGED <<codecVars, sendVars, recvVars, config, eventListeners, fired, registered>>

EventsInit ==
    /\ CodecIdle
    /\ SendInit
    /\ RecvInit
    /\ \E cfg \in Configs : ConnInitWith(cfg)

EventsNext ==
    \/ AddEventListener
    \/ RemoveEventListener
    \/ SocketOpens
    \/ SocketCloses
    \/ TimerFires

SpecEvents == EventsInit /\ [][EventsNext]_vars

\* a timeout that was set does fire
SpecEventsFair == SpecEvents /\ WF_vars(TimerFires)

\* how many of the sockets made so far have closed
Closed == Cardinality({i \in 1..Len(sockets) : sockets[i] = "closed"})

\* the close listeners were called, in order, before anything else, and the
\* handler then set one timeout when a reconnectTimeout is given (0 included)
\* and none when it is not
ClosedInOrder(f) ==
    /\ Len(f.effects) = Len(f.expected) + (IF config # <<>> THEN 1 ELSE 0)
    /\ \A i \in 1..Len(f.expected) : f.effects[i] = <<"call", "close", f.expected[i]>>
    /\ config # <<>> =>
         f.effects[Len(f.expected) + 1] = <<"setTimeout", "reconnect", config[1]>>

Called(effects) ==
    [i \in 1..Len(SelectSeq(effects, LAMBDA e : e[1] = "call")) |->
       SelectSeq(effects, LAMBDA e : e[1] = "call")[i][3]]

OtherEvent(event) == IF event = "open" THEN "close" ELSE "open"

===========================================================================
